---------------------------- MODULE Spec2Model ----------------------------
(***************************************************************************)
(* A model of the tariff engine of navigator_flex:                         *)
(*   - TariffProcessor (src/tariff_processor.py): the applicability        *)
(*     evaluator, the penalty/exclusion resolver and analyze_tariffs;      *)
(*   - ReportBuilder.generate_report_data (src/report_builder.py);         *)
(*   - calculate_tariff_route (src/route.py): validation, fetch, analysis, *)
(*     report, get_data and calculate_total_tariff.                        *)
(*                                                                         *)
(* Python values are encoded with one shape per field, so that any two     *)
(* values of a field can be compared:                                      *)
(*   - a call's outcome is [exc, val]: exc = "none" and the returned val,  *)
(*     or the name of the exception that left the call;                    *)
(*   - a date field of a JSON record is [tag, date]: the key is "missing", *)
(*     its value is "null", an unparsable string ("bad"), or an ISO string *)
(*     ("iso") whose calendar day is date;                                 *)
(*   - an optional date (loading_date) is <<>> for None and <<d>> for d;   *)
(*   - a text (rate description) is a sequence of one-character strings.   *)
(***************************************************************************)
EXTENDS Integers, Sequences, FiniteSets, TLC

VARIABLES
    pc,             \* position of the running call
    code,           \* evaluator: the record given to _is_code_applicable
    ctx,            \* evaluator: country, transport, entry_date, loading_date
    applicable,     \* evaluator: outcome of _is_code_applicable
    tariffs,        \* resolver: the list given to _process_other_tariffs
    processed,      \* resolver: outcome of _process_other_tariffs
    request,        \* route: the TariffRequest
    raw_data,       \* route: what TariffLoader().fetch returned
    analysis,       \* route: outcome of analyze_tariffs
    report_results, \* route: the report of generate_report_data
    total_tariff,   \* route: what get_data returned
    total_rate,     \* route: what calculate_total_tariff returned
    response        \* route: the HTTP status the request ended with

evalVars == <<code, ctx, applicable>>

resolveVars == <<tariffs, processed>>

routeVars == <<request, raw_data, analysis, report_results, total_tariff, total_rate, response>>

vars == <<pc, evalVars, resolveVars, routeVars>>

---------------------------------------------------------------------------
(* Bounds *)

\* Calendar days are 1..MaxDay.
MaxDay == 2

\* Longest applicabilityConditions list of a record.
MaxConds == 2

\* Longest list given to _process_other_tariffs on its own.
MaxTariffs == 3

\* Most non-primary records in a fetched snapshot.
MaxRecords == 2

Days == 1..MaxDay

---------------------------------------------------------------------------
(* Outcomes of calls *)

Ret(v) == [exc |-> "none", val |-> v]

Raise(e) == [exc |-> e, val |-> FALSE]

Pending == [exc |-> "pending", val |-> FALSE]

None == <<>>

Some(d) == <<d>>

---------------------------------------------------------------------------
(* Date fields of a record and their parsing *)

Iso(d) == [tag |-> "iso", date |-> d]

MissingDate == [tag |-> "missing", date |-> 0]

NullDate == [tag |-> "null", date |-> 0]

BadDate == [tag |-> "bad", date |-> 0]

DateFields == {MissingDate, NullDate, BadDate} \cup {Iso(d) : d \in Days}

\* datetime.fromisoformat(rec[key].replace('Z', '+00:00')).date():
\* rec[key] raises KeyError when the key is missing, None.replace raises
\* AttributeError, fromisoformat raises ValueError on an unparsable string,
\* and .date() keeps the calendar day of a parsed string.
parse_iso_date(field) ==
    CASE field.tag = "missing" -> Raise("KeyError")
      [] field.tag = "null"    -> Raise("AttributeError")
      [] field.tag = "bad"     -> Raise("ValueError")
      [] OTHER                 -> Ret(field.date)

---------------------------------------------------------------------------
(* TariffProcessor._check_conditions *)

\* Line 26: a MODE_OF_TRANSPORT condition is looked at only when the
\* shipment transport is not ANY.
transport_checked_mut(field_key, transport) ==
    field_key = "MODE_OF_TRANSPORT"

transport_checked(field_key, transport) ==
    field_key = "MODE_OF_TRANSPORT" /\ transport # "ANY"

\* Lines 35-52: the date comparison of one DATE_OF_LOADING condition, with a
\* loading date d.  The outcome's val is TRUE when the loop goes on and FALSE
\* when the method returns False; KeyError and ValueError are caught (line
\* 50) and return False, any other exception leaves the method.
loading_date_passes(condition, d) ==
    LET caught(e) == IF e \in {"KeyError", "ValueError"} THEN Ret(FALSE) ELSE Raise(e)
    IN  CASE condition.typename = "CustomsTariffLess" ->
               LET threshold == parse_iso_date(condition.threshold)
               IN  IF threshold.exc # "none" THEN caught(threshold.exc)
                   ELSE Ret(d < threshold.val)
          [] condition.typename = "CustomsTariffGreater" ->
               LET threshold == parse_iso_date(condition.threshold)
               IN  IF threshold.exc # "none" THEN caught(threshold.exc)
                   ELSE Ret(d > threshold.val)
          [] condition.typename = "CustomsTariffBetween" ->
               LET lower == parse_iso_date(condition.lowerBound)
                   upper == parse_iso_date(condition.upperBound)
               IN  IF lower.exc # "none" THEN caught(lower.exc)
                   ELSE IF upper.exc # "none" THEN caught(upper.exc)
                   ELSE Ret(lower.val <= d /\ d < upper.val)
          [] OTHER -> Ret(TRUE)

\* Lines 21-59: the loop over the conditions from index i on.
RECURSIVE check_conditions_from(_, _, _, _)
check_conditions_from(conditions, i, transport, loading_date) ==
    IF i > Len(conditions) THEN Ret(TRUE)
    ELSE
      LET condition == conditions[i]
          rest == check_conditions_from(conditions, i + 1, transport, loading_date)
      IN  IF transport_checked(condition.fieldKey, transport)
          THEN IF condition.fieldShouldEqual # transport THEN Ret(FALSE) ELSE rest
          ELSE IF condition.fieldKey = "DATE_OF_LOADING"
          THEN IF loading_date = None THEN Ret(FALSE)
               ELSE LET r == loading_date_passes(condition, loading_date[1])
                    IN  IF r.exc # "none" THEN r
                        ELSE IF ~r.val THEN Ret(FALSE)
                        ELSE rest
          ELSE rest   \* CHOSEN_SPIS and every other key: nothing is checked

\* Lines 14-59, with a shipment without a loading date checked as if it
\* had been loaded on day 1.
check_conditions_mut(conditions, transport, loading_date) ==
    check_conditions_from(conditions, 1, transport,
                          IF loading_date = None THEN Some(1) ELSE loading_date)

check_conditions(conditions, transport, loading_date) ==
    check_conditions_from(conditions, 1, transport, loading_date)

---------------------------------------------------------------------------
(* TariffProcessor._is_code_applicable *)

\* Line 70, with an exclusive upper end.
in_window_mut(from_date, entry_date, to_date) ==
    from_date <= entry_date /\ entry_date < to_date

\* Line 70: from_date <= entry_date <= to_date.
in_window(from_date, entry_date, to_date) ==
    from_date <= entry_date /\ entry_date <= to_date

\* Line 75: a non-empty countriesOfOrigin must hold the shipment country.
country_matches(countries, country) ==
    countries = <<>> \/ \E i \in 1..Len(countries) : countries[i] = country

is_code_applicable(c, country, transport, entry_date, loading_date) ==
    LET caught(e) == IF e \in {"KeyError", "ValueError"} THEN Ret(FALSE) ELSE Raise(e)
        from_date == parse_iso_date(c.effectiveFrom)
        to_date == parse_iso_date(c.effectiveTo)
    IN  IF from_date.exc # "none" THEN caught(from_date.exc)
        ELSE IF to_date.exc # "none" THEN caught(to_date.exc)
        ELSE IF ~in_window(from_date.val, entry_date, to_date.val) THEN Ret(FALSE)
        ELSE IF ~country_matches(c.countriesOfOrigin, country) THEN Ret(FALSE)
        ELSE LET ok == check_conditions(c.applicabilityConditions, transport, loading_date)
             IN  IF ok.exc # "none" THEN caught(ok.exc) ELSE ok

---------------------------------------------------------------------------
(* Numbers: a Python float is modelled by the exact decimal m / 10^e *)

RECURSIVE Pow10(_)
Pow10(n) == IF n = 0 THEN 1 ELSE 10 * Pow10(n - 1)

RECURSIVE DecNorm(_)
DecNorm(d) ==
    IF d.e > 0 /\ d.m % 10 = 0 THEN DecNorm([m |-> d.m \div 10, e |-> d.e - 1]) ELSE d

Dec(m, e) == DecNorm([m |-> m, e |-> e])

DecInt(n) == Dec(n, 0)

DecAdd(a, b) ==
    LET e == IF a.e > b.e THEN a.e ELSE b.e
    IN  Dec(a.m * Pow10(e - a.e) + b.m * Pow10(e - b.e), e)

DecScale(n, a) == Dec(n * a.m, a.e)

DecDiv100(a) == Dec(a.m, a.e + 2)

DecSign(a) == IF a.m > 0 THEN 1 ELSE IF a.m < 0 THEN -1 ELSE 0

IsDigit(ch) == ch \in {"0", "1", "2", "3", "4", "5", "6", "7", "8", "9"}

DigitVal(ch) ==
    CASE ch = "0" -> 0 [] ch = "1" -> 1 [] ch = "2" -> 2 [] ch = "3" -> 3
      [] ch = "4" -> 4 [] ch = "5" -> 5 [] ch = "6" -> 6 [] ch = "7" -> 7
      [] ch = "8" -> 8 [] ch = "9" -> 9

\* The value of a run of digits read as a decimal integer.
RECURSIVE DigitsVal(_)
DigitsVal(t) ==
    IF t = <<>> THEN 0
    ELSE 10 * DigitsVal(SubSeq(t, 1, Len(t) - 1)) + DigitVal(t[Len(t)])

AllDigits(t) == \A i \in 1..Len(t) : IsDigit(t[i])

\* float(text) for a decimal literal: an optional sign, digits, an optional
\* point and digits, at least one digit in all; ValueError for any other
\* text of the model.
to_float(text) ==
    LET neg == text # <<>> /\ text[1] = "-"
        body == IF neg THEN Tail(text) ELSE text
        dots == {i \in 1..Len(body) : body[i] = "."}
        int_part == IF dots = {} THEN body
                    ELSE SubSeq(body, 1, (CHOOSE i \in dots : TRUE) - 1)
        frac_part == IF dots = {} THEN <<>>
                     ELSE SubSeq(body, (CHOOSE i \in dots : TRUE) + 1, Len(body))
        m == DigitsVal(int_part \o frac_part)
    IN  IF Cardinality(dots) > 1 \/ ~AllDigits(int_part) \/ ~AllDigits(frac_part)
           \/ int_part \o frac_part = <<>>
        THEN Raise("ValueError")
        ELSE Ret(Dec(IF neg THEN -m ELSE m, Len(frac_part)))

---------------------------------------------------------------------------
(* Texts: sequences of one-character strings *)

Txt25 == <<"2", "5", "%">>

Txt10 == <<"1", "0", "%">>

Txt5 == <<"5", "%">>

Txt0 == <<"0", "%">>

Txt2p5 == <<"2", ".", "5", "%">>

Txt1 == <<"1", "%">>

TxtFree == <<"F", "r", "e", "e">>

TxtFREE == <<"F", "R", "E", "E">>

TxtCompound == <<"1", "0", "%", " ", "+", " ", "$", "0", ".", "5", "2", "/", "k", "g">>

\* 'N/A', the default of the report's .get(..., 'N/A').
TxtNA == <<"N", "/", "A">>

\* The value of a text key that the record does not have.
AbsentText == <<"">>

text_get(field, default) == IF field = AbsentText THEN default ELSE field

UpperLetters ==
    <<"A", "B", "C", "D", "E", "F", "G", "H", "I", "J", "K", "L", "M",
      "N", "O", "P", "Q", "R", "S", "T", "U", "V", "W", "X", "Y", "Z">>

LowerLetters ==
    <<"a", "b", "c", "d", "e", "f", "g", "h", "i", "j", "k", "l", "m",
      "n", "o", "p", "q", "r", "s", "t", "u", "v", "w", "x", "y", "z">>

\* str.lower() on a text.
text_lower(text) ==
    [i \in 1..Len(text) |->
        IF \E k \in 1..Len(UpperLetters) : UpperLetters[k] = text[i]
        THEN LowerLetters[CHOOSE k \in 1..Len(UpperLetters) : UpperLetters[k] = text[i]]
        ELSE text[i]]

\* str.upper() on the request's strings (transport modes and country codes
\* are kept as whole strings).
str_upper(str) ==
    CASE str = "any" -> "ANY"
      [] str = "ocean" -> "OCEAN"
      [] str = "boat" -> "BOAT"
      [] str = "cn" -> "CN"
      [] str = "us" -> "US"
      [] OTHER -> str

\* The first index from i on that holds no digit.
RECURSIVE digits_end(_, _)
digits_end(text, i) ==
    IF i <= Len(text) /\ IsDigit(text[i]) THEN digits_end(text, i + 1) ELSE i

\* re.findall(r"\d+\.?\d*%?", text) from index i on: the leftmost matches,
\* each as long as it can be, none overlapping.
RECURSIVE extract_values_from(_, _)
extract_values_from(text, i) ==
    IF i > Len(text) THEN <<>>
    ELSE IF ~IsDigit(text[i]) THEN extract_values_from(text, i + 1)
    ELSE LET a == digits_end(text, i)
             b == IF a <= Len(text) /\ text[a] = "." THEN digits_end(text, a + 1) ELSE a
             c == IF b <= Len(text) /\ text[b] = "%" THEN b + 1 ELSE b
         IN  <<SubSeq(text, i, c - 1)>> \o extract_values_from(text, c)

extract_values(input_string) == extract_values_from(input_string, 1)

\* float(value.replace('%', '')) inside try/except ValueError: pass: the
\* value added to a sum, nothing for a text that is no number.
rate_value(value) ==
    LET not_percent(ch) == ch # "%"
        f == to_float(SelectSeq(value, not_percent))
    IN  IF f.exc = "none" THEN f.val ELSE DecInt(0)

\* The sum of the values of a list of tokens.
RECURSIVE sum_values(_)
sum_values(values) ==
    IF values = <<>> THEN DecInt(0)
    ELSE DecAdd(rate_value(Head(values)), sum_values(Tail(values)))

\* The two-decimal rendering f"{x:.2f}" of a non-negative number, as the
\* decimal it prints (ties to even).
format_2f(x) ==
    IF x.e <= 2 THEN x
    ELSE LET unit == Pow10(x.e - 2)
             q == x.m \div unit
             r == x.m % unit
         IN  Dec(IF 2 * r > unit \/ (2 * r = unit /\ q % 2 = 1) THEN q + 1 ELSE q, 2)

---------------------------------------------------------------------------
(* Tariff records *)

Priority(n) == [tag |-> "int", val |-> n]

MissingPriority == [tag |-> "missing", val |-> 0]

NullPriority == [tag |-> "null", val |-> 0]

\* rateInfo with a penaltyRate string; the empty string stands for a
\* penaltyRate that is absent, null or empty (all falsy in line 98).
RateInfo(penalty_rate) == [present |-> TRUE, penaltyRate |-> penalty_rate]

MissingRateInfo == [present |-> FALSE, penaltyRate |-> <<>>]

Tariff(type, c, label, rate, rate_info, from, to, countries, conditions, excluded_by, priority) ==
    [type |-> type, codeVariant |-> [code |-> c], label |-> label,
     rateDescription |-> rate, rateInfo |-> rate_info,
     effectiveFrom |-> from, effectiveTo |-> to,
     countriesOfOrigin |-> countries, applicabilityConditions |-> conditions,
     excludedByCodes |-> excluded_by, priority |-> priority,
     requiresUserChoice |-> FALSE, fullDescription |-> "N/A",
     specialRates |-> <<>>]

---------------------------------------------------------------------------
(* TariffProcessor._process_other_tariffs *)

\* Lines 98-99: float(c['rateInfo'].get('penaltyRate') or 0).
penalty_rate(c) ==
    IF ~c.rateInfo.present THEN Raise("KeyError")
    ELSE IF c.rateInfo.penaltyRate = <<>> THEN Ret(DecInt(0))
    ELSE to_float(c.rateInfo.penaltyRate)

\* Line 98: ... > 0.
is_penalty(c) == DecSign(penalty_rate(c).val) > 0

\* Line 99, counting only a penaltyRate that is written out as zero.
is_exclusion_mut(c) ==
    DecSign(penalty_rate(c).val) = 0 /\ c.rateInfo.penaltyRate # <<>>

\* Line 99: ... == 0.
is_exclusion(c) == DecSign(penalty_rate(c).val) = 0

\* Line 106.
exclusion_codes(exclusions) ==
    {exclusions[i].codeVariant.code : i \in 1..Len(exclusions)}

\* Line 118, never matching.
code_matches_mut(ex_code, exclusion_code_set) == FALSE

\* Line 118: ex_code in exclusion_code_set.
code_matches(ex_code, exclusion_code_set) == ex_code \in exclusion_code_set

\* Lines 116-122 for one penalty: the referenced codes, from index j on, that
\* match an applicable exclusion.
RECURSIVE matched_codes(_, _, _)
matched_codes(excluded_by, j, exclusion_code_set) ==
    IF j > Len(excluded_by) THEN <<>>
    ELSE (IF code_matches(excluded_by[j], exclusion_code_set)
          THEN <<excluded_by[j]>> ELSE <<>>)
         \o matched_codes(excluded_by, j + 1, exclusion_code_set)

\* Line 121, taking only the first exclusion that has the code.
RECURSIVE matching_exclusions_mut(_, _, _)
matching_exclusions_mut(codes, j, exclusions) ==
    IF j > Len(codes) THEN <<>>
    ELSE LET has_code(e) == e.codeVariant.code = codes[j]
             found == SelectSeq(exclusions, has_code)
         IN  (IF found = <<>> THEN <<>> ELSE <<found[1]>>)
             \o matching_exclusions_mut(codes, j + 1, exclusions)

\* Line 121: for each matched code in turn, every exclusion that has it.
RECURSIVE matching_exclusions(_, _, _)
matching_exclusions(codes, j, exclusions) ==
    IF j > Len(codes) THEN <<>>
    ELSE LET has_code(e) == e.codeVariant.code = codes[j]
         IN  SelectSeq(exclusions, has_code) \o matching_exclusions(codes, j + 1, exclusions)

\* Line 125: excluded_penalties[penalty_code] = entry.  The dict is the
\* sequence of its entries in insertion order; assigning to a key it holds
\* replaces that entry's value in place.
dict_put(d, entry) ==
    IF \E k \in 1..Len(d) : d[k].penalty_code = entry.penalty_code
    THEN [k \in 1..Len(d) |-> IF d[k].penalty_code = entry.penalty_code THEN entry ELSE d[k]]
    ELSE Append(d, entry)

\* Lines 111-130: the loop over the penalties from index i on.
RECURSIVE link_penalties(_, _, _, _)
link_penalties(penalties, i, exclusions, acc) ==
    IF i > Len(penalties) THEN acc
    ELSE
      LET penalty == penalties[i]
          codes == matched_codes(penalty.excludedByCodes, 1, exclusion_codes(exclusions))
          is_excluded == codes # <<>>
          entry == [penalty_code |-> penalty.codeVariant.code,
                    penalty |-> penalty,
                    exclusions |-> matching_exclusions(codes, 1, exclusions)]
      IN  link_penalties(penalties, i + 1, exclusions,
            IF is_excluded
            THEN [acc EXCEPT !.excluded_penalties = dict_put(@, entry),
                             !.used_exclusion_codes = @ \cup {codes[j] : j \in 1..Len(codes)}]
            ELSE [acc EXCEPT !.final_penalties = Append(@, penalty)])

process_other_tariffs(ts) ==
    LET failing == {i \in 1..Len(ts) : penalty_rate(ts[i]).exc # "none"}
    IN  IF failing # {}
        THEN Raise(penalty_rate(ts[CHOOSE i \in failing : \A j \in failing : i <= j]).exc)
        ELSE
          LET penalties == SelectSeq(ts, is_penalty)
              exclusions == SelectSeq(ts, is_exclusion)
              linked == link_penalties(penalties, 1, exclusions,
                            [final_penalties |-> <<>>, excluded_penalties |-> <<>>,
                             used_exclusion_codes |-> {}])
              unused(e) == e.codeVariant.code \notin linked.used_exclusion_codes
          IN  Ret([applicable_penalties |-> linked.final_penalties,
                   excluded_penalties |-> linked.excluded_penalties,
                   neutral_exclusions |-> SelectSeq(exclusions, unused)])

---------------------------------------------------------------------------
(* TariffProcessor.analyze_tariffs *)

DefaultPriority == 99

\* A special rate of the primary record.
SpecialRate(program_name, spi, rate, countries) ==
    [importProgram |-> [programName |-> program_name, countriesOfOrigin |-> countries],
     spi |-> spi, rateDescription |-> rate]

\* Line 166, with every program taken.
program_applies_mut(rate, country) == TRUE

\* Line 166: the program's countriesOfOrigin holds the shipment country.
program_applies(rate, country) ==
    \E i \in 1..Len(rate.importProgram.countriesOfOrigin) :
        rate.importProgram.countriesOfOrigin[i] = country

\* Lines 170-174 from index i on: the non-primary records in force, in
\* snapshot order; the first call of _is_code_applicable that raises ends
\* the comprehension.
RECURSIVE other_tariffs_from(_, _, _, _, _, _)
other_tariffs_from(raw, i, country, transport, entry_date, loading_date) ==
    IF i > Len(raw) THEN Ret(<<>>)
    ELSE IF raw[i].type = "COMMODITY_CODE"
    THEN other_tariffs_from(raw, i + 1, country, transport, entry_date, loading_date)
    ELSE LET a == is_code_applicable(raw[i], country, transport, entry_date, loading_date)
             rest == other_tariffs_from(raw, i + 1, country, transport, entry_date, loading_date)
         IN  IF a.exc # "none" THEN Raise(a.exc)
             ELSE IF rest.exc # "none" THEN rest
             ELSE Ret((IF a.val THEN <<raw[i]>> ELSE <<>>) \o rest.val)

\* Line 177: the sort key x.get('priority', 99).
priority_key(c) == IF c.priority.tag = "missing" THEN DefaultPriority ELSE c.priority.val

\* Line 177: list.sort is stable; comparing a None key with another key
\* raises TypeError, and a list of fewer than two records compares nothing.
sort_by_priority(ts) ==
    IF Len(ts) >= 2 /\ \E i \in 1..Len(ts) : ts[i].priority.tag = "null"
    THEN Raise("TypeError")
    ELSE LET before(j, i) == \/ priority_key(ts[j]) < priority_key(ts[i])
                             \/ (priority_key(ts[j]) = priority_key(ts[i]) /\ j < i)
             rank(i) == 1 + Cardinality({j \in 1..Len(ts) : before(j, i)})
         IN  Ret([k \in 1..Len(ts) |-> ts[CHOOSE i \in 1..Len(ts) : rank(i) = k]])

analyze_tariffs(raw, country, transport, entry_date, loading_date) ==
    LET primaries == {i \in 1..Len(raw) : raw[i].type = "COMMODITY_CODE"}
    IN  IF primaries = {}
        THEN Ret([error |-> "No primary COMMODITY_CODE found."])
        ELSE
          LET primary_code == raw[CHOOSE i \in primaries : \A j \in primaries : i <= j]
              applies(rate) == program_applies(rate, country)
              special_programs == SelectSeq(primary_code.specialRates, applies)
              other_tariffs == other_tariffs_from(raw, 1, country, transport,
                                                  entry_date, loading_date)
              sorted == sort_by_priority(other_tariffs.val)
              processed_tariffs == process_other_tariffs(sorted.val)
          IN  IF other_tariffs.exc # "none" THEN Raise(other_tariffs.exc)
              ELSE IF sorted.exc # "none" THEN Raise(sorted.exc)
              ELSE IF processed_tariffs.exc # "none" THEN Raise(processed_tariffs.exc)
              ELSE Ret([primary |-> primary_code,
                        special_programs |-> special_programs,
                        applicable_penalties |-> processed_tariffs.val.applicable_penalties,
                        excluded_penalties |-> processed_tariffs.val.excluded_penalties,
                        neutral_exclusions |-> processed_tariffs.val.neutral_exclusions])

---------------------------------------------------------------------------
(* ReportBuilder.generate_report_data *)

build_primary_info(primary) ==
    [hts_code |-> primary.codeVariant.code,
     description |-> primary.fullDescription,
     column_1_rate |-> text_get(primary.rateDescription, TxtNA),
     column_2_rate |-> "15% (Rate applies to Cuba & North Korea)"]

build_special_programs(programs, country) ==
    LET program(prog) == [program_name |-> prog.importProgram.programName,
                          spi |-> prog.spi,
                          rate |-> text_get(prog.rateDescription, TxtNA)]
    IN  [country |-> country,
         has_message |-> (programs = <<>>),
         applicable_programs |-> [i \in 1..Len(programs) |-> program(programs[i])]]

build_other_tariffs(penalties, excluded_penalties, neutral_exclusions) ==
    LET active(c) == [label |-> c.label, code |-> c.codeVariant.code,
                      rate |-> text_get(c.rateDescription, TxtNA)]
        exclusion(ex) == [label |-> ex.label, code |-> ex.codeVariant.code,
                          rate |-> text_get(ex.rateDescription, TxtNA),
                          requires_choice |-> ex.requiresUserChoice]
        excluded(data) ==
            [penalty_label |-> data.penalty.label,
             penalty_code |-> data.penalty_code,
             penalty_rate |-> text_get(data.penalty.rateDescription, TxtNA),
             potential_exclusions |->
                 [i \in 1..Len(data.exclusions) |-> exclusion(data.exclusions[i])]]
    IN  [active_penalties |-> [i \in 1..Len(penalties) |-> active(penalties[i])],
         excluded_penalties |->
             [i \in 1..Len(excluded_penalties) |-> excluded(excluded_penalties[i])],
         neutral_exclusions |->
             [i \in 1..Len(neutral_exclusions) |-> exclusion(neutral_exclusions[i])],
         has_message |-> (penalties = <<>> /\ excluded_penalties = <<>>
                          /\ neutral_exclusions = <<>>)]

generate_report_data(result, country) ==
    [primary_info |-> build_primary_info(result.primary),
     special_programs |-> build_special_programs(result.special_programs, country),
     other_tariffs |-> build_other_tariffs(result.applicable_penalties,
                                           result.excluded_penalties,
                                           result.neutral_exclusions)]

---------------------------------------------------------------------------
(* calculate_tariff_route: get_data and calculate_total_tariff *)

\* Lines 110-114, taking the last applicable program.
basic_rate_of_mut(report) ==
    LET programs == report.special_programs.applicable_programs
    IN  IF programs # <<>> THEN programs[Len(programs)].rate
        ELSE report.primary_info.column_1_rate

\* Lines 110-114: the first applicable program's rate, else column 1.
basic_rate_of(report) ==
    LET programs == report.special_programs.applicable_programs
    IN  IF programs # <<>> THEN programs[1].rate
        ELSE report.primary_info.column_1_rate

\* Lines 159-163: penalty.get("neutral_exclusions", []) of an entry of the
\* report's excluded_penalties, then the numeric tokens of every string
\* value of each of its dicts (in the model, rate is their only text).
RECURSIVE neutral_values_of(_)
neutral_values_of(neutrals) ==
    IF neutrals = <<>> THEN <<>>
    ELSE extract_values(Head(neutrals).rate) \o neutral_values_of(Tail(neutrals))

entry_neutral_values(penalty) ==
    IF "neutral_exclusions" \in DOMAIN penalty
    THEN neutral_values_of(penalty.neutral_exclusions)
    ELSE <<>>

RECURSIVE potential_exclusions_of(_)
potential_exclusions_of(entries) ==
    IF entries = <<>> THEN <<>>
    ELSE LET potential(p) == [code |-> p.code, rate_values |-> extract_values(p.rate),
                              label |-> p.label]
             ps == Head(entries).potential_exclusions
         IN  [i \in 1..Len(ps) |-> potential(ps[i])] \o potential_exclusions_of(Tail(entries))

RECURSIVE neutral_exclusions_of(_)
neutral_exclusions_of(entries) ==
    IF entries = <<>> THEN <<>>
    ELSE entry_neutral_values(Head(entries)) \o neutral_exclusions_of(Tail(entries))

\* Lines 127 and 143: extract_values of a penalty's rate.
penalty_rate_values(rate) == extract_values(rate)

get_data(report) ==
    LET other_tariffs == report.other_tariffs
        penalty(p) == [label |-> p.label, code |-> p.code,
                       rate_values |-> penalty_rate_values(p.rate)]
        excluded(p) == [code |-> p.penalty_code,
                        rate_values |-> penalty_rate_values(p.penalty_rate),
                        label |-> p.penalty_label]
    IN  [basic_rate |-> basic_rate_of(report),
         penalties |-> [i \in 1..Len(other_tariffs.active_penalties) |->
                           penalty(other_tariffs.active_penalties[i])],
         excluded_penalties |-> [i \in 1..Len(other_tariffs.excluded_penalties) |->
                                    excluded(other_tariffs.excluded_penalties[i])],
         potential_exclusions |-> potential_exclusions_of(other_tariffs.excluded_penalties),
         neutral_exclusions |-> neutral_exclusions_of(other_tariffs.excluded_penalties)]

\* Lines 184-189: 0 for "free" in any letter case, else the first numeric
\* token, else 0.
basic_rate_value(basic_rate_str) ==
    IF text_lower(basic_rate_str) = <<"f", "r", "e", "e">> THEN DecInt(0)
    ELSE LET values == extract_values(basic_rate_str)
         IN  IF values # <<>> THEN rate_value(values[1]) ELSE DecInt(0)

\* The sum of the rate_values of a list of penalties (lines 194-199 and
\* 202-207).
RECURSIVE rate_values_total(_)
rate_values_total(penalties) ==
    IF penalties = <<>> THEN DecInt(0)
    ELSE DecAdd(sum_values(Head(penalties).rate_values), rate_values_total(Tail(penalties)))

\* total_rate when duty_rate is computed (line 216): the basic rate value
\* (line 191) plus the neutral values of tariff_data (lines 209-213).
total_rate_of(tariff_data) ==
    DecAdd(basic_rate_value(tariff_data.basic_rate), sum_values(tariff_data.neutral_exclusions))

\* Line 216, leaving the excluded penalties out.
duty_rate_of_mut(tariff_data) ==
    DecAdd(total_rate_of(tariff_data), rate_values_total(tariff_data.penalties))

\* Line 216: duty_rate = total_rate + active_total_rate + excluded_total_rate.
duty_rate_of(tariff_data) ==
    DecAdd(DecAdd(total_rate_of(tariff_data), rate_values_total(tariff_data.penalties)),
           rate_values_total(tariff_data.excluded_penalties))

calculate_total_tariff(tariff_data, base_cost) ==
    LET duty_rate == duty_rate_of(tariff_data)
        total_cost == DecScale(base_cost, DecDiv100(duty_rate))
    IN  [duty_rate |-> format_2f(duty_rate),
         total_duties |-> total_cost,
         total_cost |-> DecAdd(total_cost, DecInt(base_cost))]

---------------------------------------------------------------------------
(* Values of the variables a run does not use *)

EvalIdle ==
    /\ code = <<>>
    /\ ctx = <<>>
    /\ applicable = Pending

ResolveIdle ==
    /\ tariffs = <<>>
    /\ processed = Pending

RouteIdle ==
    /\ request = <<>>
    /\ raw_data = <<>>
    /\ analysis = Pending
    /\ report_results = <<>>
    /\ total_tariff = <<>>
    /\ total_rate = <<>>
    /\ response = 0

---------------------------------------------------------------------------
(* The evaluator on its own: one call of _is_code_applicable *)

Cond(fk, tn, eq, th, lo, hi) ==
    [fieldKey |-> fk, typename |-> tn, fieldShouldEqual |-> eq,
     threshold |-> th, lowerBound |-> lo, upperBound |-> hi]

TransportCond(eq) ==
    Cond("MODE_OF_TRANSPORT", "CustomsTariffEqual", eq, MissingDate, MissingDate, MissingDate)

LessCond(th) ==
    Cond("DATE_OF_LOADING", "CustomsTariffLess", "None", th, MissingDate, MissingDate)

GreaterCond(th) ==
    Cond("DATE_OF_LOADING", "CustomsTariffGreater", "None", th, MissingDate, MissingDate)

BetweenCond(lo, hi) ==
    Cond("DATE_OF_LOADING", "CustomsTariffBetween", "None", MissingDate, lo, hi)

\* The conditions a record of the evaluator's runs may carry.
Conds ==
    {TransportCond("OCEAN"), TransportCond("AIR")}
    \cup {LessCond(th) : th \in DateFields}
    \cup {GreaterCond(Iso(1))}
    \cup {BetweenCond(Iso(1), Iso(MaxDay)), BetweenCond(NullDate, Iso(1)),
          BetweenCond(MissingDate, NullDate)}
    \cup {Cond("DATE_OF_LOADING", "CustomsTariffEqual", "None", MissingDate, MissingDate, MissingDate),
          Cond("CHOSEN_SPIS", "CustomsTariffEqual", "A", MissingDate, MissingDate, MissingDate),
          Cond("COUNTRY_OF_SMELT", "CustomsTariffEqual", "CN", MissingDate, MissingDate, MissingDate)}

SeqsUpTo(S, n) == UNION {[1..k -> S] : k \in 0..n}

EvalCode(from, to, countries, conditions) ==
    [effectiveFrom |-> from, effectiveTo |-> to,
     countriesOfOrigin |-> countries, applicabilityConditions |-> conditions]

EvalCtx(country, transport, entry_date, loading_date) ==
    [country |-> country, transport |-> transport,
     entry_date |-> entry_date, loading_date |-> loading_date]

\* Calls that vary the effective window and the countries of origin.
WindowCalls ==
    { <<EvalCode(from, to, countries, conditions), EvalCtx(country, transport, e, l)>> :
        from \in DateFields, to \in DateFields,
        countries \in {<<>>, <<"CN">>, <<"MX", "CN">>},
        conditions \in {<<>>, <<TransportCond("OCEAN")>>, <<LessCond(Iso(MaxDay))>>},
        country \in {"CN", "US"}, transport \in {"ANY", "OCEAN"},
        e \in Days, l \in {None, Some(1)} }

\* Calls of records in force for every entry date, varying the conditions.
ConditionCalls ==
    { <<EvalCode(Iso(1), Iso(MaxDay), <<>>, conditions), EvalCtx("CN", transport, e, l)>> :
        conditions \in SeqsUpTo(Conds, MaxConds),
        transport \in {"ANY", "OCEAN"},
        e \in Days, l \in {None} \cup {Some(d) : d \in Days} }

InitApplicable ==
    /\ pc = "applicable_call"
    /\ \E call \in WindowCalls \cup ConditionCalls :
         /\ code = call[1]
         /\ ctx = call[2]
    /\ applicable = Pending
    /\ ResolveIdle
    /\ RouteIdle

IsCodeApplicable ==
    /\ pc = "applicable_call"
    /\ applicable' = is_code_applicable(code, ctx.country, ctx.transport,
                                        ctx.entry_date, ctx.loading_date)
    /\ pc' = "applicable_done"
    /\ UNCHANGED <<code, ctx, resolveVars, routeVars>>

NextApplicable == IsCodeApplicable

SpecApplicable == InitApplicable /\ [][NextApplicable]_vars

---------------------------------------------------------------------------
(* Claims about the evaluator *)

Malformed(field) == field.tag # "iso"

\* The date fields a DATE_OF_LOADING condition of this kind reads.
DateFieldsRead(condition) ==
    CASE condition.typename \in {"CustomsTariffLess", "CustomsTariffGreater"} ->
           {condition.threshold}
      [] condition.typename = "CustomsTariffBetween" ->
           {condition.lowerBound, condition.upperBound}
      [] OTHER -> {}

HasMalformedLoadingCondition(c) ==
    \E i \in 1..Len(c.applicabilityConditions) :
        /\ c.applicabilityConditions[i].fieldKey = "DATE_OF_LOADING"
        /\ \E f \in DateFieldsRead(c.applicabilityConditions[i]) : Malformed(f)

\* C5: a record whose effectiveFrom or effectiveTo is missing, null or
\* unparsable, or that carries a DATE_OF_LOADING condition whose threshold,
\* lowerBound or upperBound is missing, null or unparsable (a loading date
\* being supplied), is found inapplicable: the call returns False and
\* raises nothing.
C5_MalformedDatesFailClosed ==
    pc = "applicable_done" =>
        ( ( \/ Malformed(code.effectiveFrom)
            \/ Malformed(code.effectiveTo)
            \/ (ctx.loading_date # None /\ HasMalformedLoadingCondition(code)) )
          => applicable = Ret(FALSE) )

\* C9: with both ends of the window parsed, the record is inapplicable when
\* entry_date is strictly before effectiveFrom or strictly after
\* effectiveTo, and from effectiveFrom to effectiveTo, both ends included,
\* the window lets the record through: the outcome is that of the country
\* and condition checks alone.  Whatever the other end holds, a record is
\* never found applicable for an entry date strictly outside a parsed end.
C9_EffectiveWindowInclusive ==
    pc = "applicable_done" =>
        LET from == code.effectiveFrom
            to == code.effectiveTo
            e == ctx.entry_date
            rest == IF ~country_matches(code.countriesOfOrigin, ctx.country)
                    THEN Ret(FALSE)
                    ELSE check_conditions(code.applicabilityConditions,
                                          ctx.transport, ctx.loading_date)
        IN  /\ (from.tag = "iso" /\ e < from.date) => applicable # Ret(TRUE)
            /\ (to.tag = "iso" /\ e > to.date) => applicable # Ret(TRUE)
            /\ (from.tag = "iso" /\ to.tag = "iso") =>
                 /\ (e < from.date \/ e > to.date) => applicable = Ret(FALSE)
                 /\ (from.date <= e /\ e <= to.date) =>
                      /\ applicable.exc = rest.exc
                      /\ rest.exc = "none" => applicable = rest
                      /\ (code.countriesOfOrigin = <<>> /\ code.applicabilityConditions = <<>>)
                            => applicable = Ret(TRUE)

\* C9 witness: an entry date equal to effectiveTo, after effectiveFrom, and
\* the record found applicable.
C9_Witness ==
    /\ pc = "applicable_done"
    /\ code.effectiveFrom.tag = "iso" /\ code.effectiveTo.tag = "iso"
    /\ code.effectiveFrom.date < code.effectiveTo.date
    /\ ctx.entry_date = code.effectiveTo.date
    /\ applicable = Ret(TRUE)

HasLoadingCondition(c) ==
    \E i \in 1..Len(c.applicabilityConditions) :
        c.applicabilityConditions[i].fieldKey = "DATE_OF_LOADING"

\* C11: for a record with at least one DATE_OF_LOADING condition and a
\* shipment without a loading date, _check_conditions returns False,
\* whatever the kind and the position of the condition and whatever the
\* other conditions; the record is never found applicable, and it is found
\* inapplicable whenever neither end of its window is null.
C11_NoLoadingDateInapplicable ==
    (pc = "applicable_done" /\ ctx.loading_date = None /\ HasLoadingCondition(code)) =>
        /\ check_conditions(code.applicabilityConditions, ctx.transport, ctx.loading_date)
             = Ret(FALSE)
        /\ applicable # Ret(TRUE)
        /\ (code.effectiveFrom.tag # "null" /\ code.effectiveTo.tag # "null")
              => applicable = Ret(FALSE)

\* C11 witness: no loading date, a record in force whose second condition
\* is a DATE_OF_LOADING condition of a kind other than Less, Greater and
\* Between, after a condition that checks nothing: found inapplicable.
C11_Witness ==
    /\ pc = "applicable_done"
    /\ ctx.loading_date = None
    /\ code.effectiveFrom = Iso(1) /\ code.effectiveTo = Iso(MaxDay)
    /\ code.countriesOfOrigin = <<>>
    /\ Len(code.applicabilityConditions) = 2
    /\ code.applicabilityConditions[1].fieldKey = "CHOSEN_SPIS"
    /\ code.applicabilityConditions[2].fieldKey = "DATE_OF_LOADING"
    /\ code.applicabilityConditions[2].typename = "CustomsTariffEqual"
    /\ applicable = Ret(FALSE)

\* The record with fieldShouldEqual of its i-th condition replaced by v.
WithShouldEqual(c, i, v) ==
    [c EXCEPT !.applicabilityConditions[i].fieldShouldEqual = v]

\* C10: with transport ANY, replacing the fieldShouldEqual of any
\* MODE_OF_TRANSPORT condition of the record by any other value leaves the
\* outcome of _is_code_applicable unchanged.
C10_TransportIgnoredWhenAny ==
    (pc = "applicable_done" /\ ctx.transport = "ANY") =>
        \A i \in 1..Len(code.applicabilityConditions) :
            code.applicabilityConditions[i].fieldKey = "MODE_OF_TRANSPORT" =>
                \A v \in {"ANY", "OCEAN", "AIR", "TRUCK", "RAIL", "None", "ocean"} :
                    is_code_applicable(WithShouldEqual(code, i, v), ctx.country,
                                       ctx.transport, ctx.entry_date, ctx.loading_date)
                        = applicable

\* C10 witness: transport ANY, a record with a MODE_OF_TRANSPORT condition
\* followed by a DATE_OF_LOADING condition, found applicable.
C10_Witness ==
    /\ pc = "applicable_done"
    /\ ctx.transport = "ANY"
    /\ Len(code.applicabilityConditions) = 2
    /\ code.applicabilityConditions[1].fieldKey = "MODE_OF_TRANSPORT"
    /\ code.applicabilityConditions[2].fieldKey = "DATE_OF_LOADING"
    /\ applicable = Ret(TRUE)

---------------------------------------------------------------------------
(* The resolver on its own: one call of _process_other_tariffs *)

\* A record as the resolver sees it: in force, with a code, a penaltyRate
\* and the codes it is excluded by.
ResolverTariff(c, penalty_rate_text, excluded_by) ==
    Tariff("OTHER", c, c, IF penalty_rate_text = <<>> THEN TxtFree ELSE Txt25,
           RateInfo(penalty_rate_text), Iso(1), Iso(MaxDay), <<>>, <<>>,
           excluded_by, MissingPriority)

ResolverTariffs ==
    {ResolverTariff(c, <<"2", "5">>, x) :
        c \in {"P", "Q"}, x \in {<<>>, <<"E">>, <<"E", "F">>}}
    \cup {ResolverTariff(c, r, <<>>) : c \in {"E", "F"}, r \in {<<>>, <<"0">>}}
    \cup {ResolverTariff("N", <<"-", "5">>, <<>>),
          ResolverTariff("B", <<"a", "b", "c">>, <<>>),
          [ResolverTariff("K", <<>>, <<>>) EXCEPT !.rateInfo = MissingRateInfo]}

\* The list's records with their position as identity: two records of a
\* Python list are two objects even when all their fields are equal.
WithIds(ts) == [i \in 1..Len(ts) |-> [id |-> i] @@ ts[i]]

InitResolve ==
    /\ pc = "resolve_call"
    /\ \E ts \in SeqsUpTo(ResolverTariffs, MaxTariffs) : tariffs = WithIds(ts)
    /\ processed = Pending
    /\ EvalIdle
    /\ RouteIdle

ProcessOtherTariffs ==
    /\ pc = "resolve_call"
    /\ processed' = process_other_tariffs(tariffs)
    /\ pc' = "resolve_done"
    /\ UNCHANGED <<tariffs, evalVars, routeVars>>

NextResolve == ProcessOtherTariffs

SpecResolve == InitResolve /\ [][NextResolve]_vars

---------------------------------------------------------------------------
(* Claims about the resolver *)

Range(seq) == {seq[i] : i \in 1..Len(seq)}

Ids(records) == {records[i].id : i \in 1..Len(records)}

NoRepeat(records) == Cardinality(Ids(records)) = Len(records)

\* The records under excluded_penalties: each entry's penalty and its
\* exclusions.
ExcludedIds(excluded_penalties) ==
    UNION {{excluded_penalties[k].penalty.id} \cup Ids(excluded_penalties[k].exclusions) :
             k \in 1..Len(excluded_penalties)}

\* C1: the active penalties, the excluded-penalty entries and the neutral
\* exclusions partition the penalty and exclusion records given to the
\* resolver: every such record is in exactly one of the three buckets.
C1_BucketsPartitionInput ==
    (pc = "resolve_done" /\ processed.exc = "none") =>
        LET r == processed.val
            active == Ids(r.applicable_penalties)
            excluded == ExcludedIds(r.excluded_penalties)
            neutral == Ids(r.neutral_exclusions)
        IN  /\ active \cap excluded = {}
            /\ active \cap neutral = {}
            /\ excluded \cap neutral = {}
            /\ NoRepeat(r.applicable_penalties)
            /\ NoRepeat(r.neutral_exclusions)
            /\ active \cup excluded \cup neutral
                 = {i \in 1..Len(tariffs) : is_penalty(tariffs[i]) \/ is_exclusion(tariffs[i])}

\* A record with a positive penaltyRate, and one with a zero or absent
\* penaltyRate.
HasPositiveRate(c) == DecSign(penalty_rate(c).val) > 0

HasZeroOrAbsentRate(c) == DecSign(penalty_rate(c).val) = 0

\* The code of e is among the excludedByCodes of a penalty of the list.
ReferencedByPenalty(e, ts) ==
    \E j \in 1..Len(ts) :
        /\ HasPositiveRate(ts[j])
        /\ \E k \in 1..Len(ts[j].excludedByCodes) :
             ts[j].excludedByCodes[k] = e.codeVariant.code

\* C12: the neutral exclusions are exactly the exclusion records (zero or
\* absent penaltyRate) whose code is in the excludedByCodes of no penalty of
\* the list, each listed once.
C12_NeutralIffUnreferenced ==
    (pc = "resolve_done" /\ processed.exc = "none") =>
        /\ Ids(processed.val.neutral_exclusions)
             = {tariffs[i].id : i \in {j \in 1..Len(tariffs) :
                                          /\ HasZeroOrAbsentRate(tariffs[j])
                                          /\ ~ReferencedByPenalty(tariffs[j], tariffs)}}
        /\ NoRepeat(processed.val.neutral_exclusions)
        /\ \A k \in 1..Len(processed.val.neutral_exclusions) :
             processed.val.neutral_exclusions[k] \in Range(tariffs)

\* C12 witness: a penalty excluded by E, then the exclusions E and F with
\* an absent penaltyRate: F alone is neutral.
C12_Witness ==
    /\ pc = "resolve_done"
    /\ processed.exc = "none"
    /\ Len(tariffs) = 3
    /\ HasPositiveRate(tariffs[1]) /\ tariffs[1].excludedByCodes = <<"E">>
    /\ tariffs[2].codeVariant.code = "E" /\ tariffs[2].rateInfo.penaltyRate = <<>>
    /\ tariffs[3].codeVariant.code = "F" /\ tariffs[3].rateInfo.penaltyRate = <<>>
    /\ processed.val.neutral_exclusions = <<tariffs[3]>>

\* The exclusion records of the list whose code is among the
\* excludedByCodes of p.
ReferencedExclusions(p, ts) ==
    {i \in 1..Len(ts) :
        /\ HasZeroOrAbsentRate(ts[i])
        /\ \E k \in 1..Len(p.excludedByCodes) :
             p.excludedByCodes[k] = ts[i].codeVariant.code}

\* C16: the exclusion group of every penalty under excluded_penalties holds
\* every exclusion record of the list whose code is among the penalty's
\* excludedByCodes, all the records sharing a code, and no other record; a
\* penalty is excluded (kept out of the active penalties, its code a key
\* of excluded_penalties) exactly when there is such an exclusion record.
C16_ExclusionGroupComplete ==
    (pc = "resolve_done" /\ processed.exc = "none") =>
        LET r == processed.val
        IN  /\ \A k \in 1..Len(r.excluded_penalties) :
                 LET entry == r.excluded_penalties[k]
                 IN  /\ entry.penalty \in Range(tariffs)
                     /\ HasPositiveRate(entry.penalty)
                     /\ entry.penalty_code = entry.penalty.codeVariant.code
                     /\ ReferencedExclusions(entry.penalty, tariffs) # {}
                     /\ Ids(entry.exclusions)
                          = {tariffs[i].id : i \in ReferencedExclusions(entry.penalty, tariffs)}
                     /\ \A j \in 1..Len(entry.exclusions) :
                          entry.exclusions[j] \in Range(tariffs)
            /\ \A i \in 1..Len(tariffs) :
                 HasPositiveRate(tariffs[i]) =>
                    /\ ReferencedExclusions(tariffs[i], tariffs) # {}
                          <=> tariffs[i].id \notin Ids(r.applicable_penalties)
                    /\ ReferencedExclusions(tariffs[i], tariffs) # {}
                          => \E k \in 1..Len(r.excluded_penalties) :
                                r.excluded_penalties[k].penalty_code
                                    = tariffs[i].codeVariant.code

\* C16 witness: a penalty excluded by E and F, and two different exclusion
\* records with the code E: both are in the penalty's group.
C16_Witness ==
    /\ pc = "resolve_done"
    /\ processed.exc = "none"
    /\ Len(tariffs) = 3
    /\ HasPositiveRate(tariffs[1]) /\ tariffs[1].excludedByCodes = <<"E", "F">>
    /\ tariffs[2].codeVariant.code = "E" /\ tariffs[2].rateInfo.penaltyRate = <<>>
    /\ tariffs[3].codeVariant.code = "E" /\ tariffs[3].rateInfo.penaltyRate = <<"0">>
    /\ processed.val.applicable_penalties = <<>>
    /\ processed.val.excluded_penalties
         = <<[penalty_code |-> tariffs[1].codeVariant.code, penalty |-> tariffs[1],
              exclusions |-> <<tariffs[2], tariffs[3]>>]>>

---------------------------------------------------------------------------
(* calculate_tariff_route: one request *)

valid_modes == {"ANY", "OCEAN", "AIR", "TRUCK", "RAIL"}

\* What TariffLoader.fetch returns: None on a failure, else the parsed list.
NotFound == [found |-> FALSE, records |-> <<>>]

Found(records) == [found |-> TRUE, records |-> records]

PenaltyCode == "9903.88.01"

ExclusionCode == "9903.88.69"

\* A Section 301 penalty on China, excluded by ExclusionCode.
PenaltyRecord ==
    Tariff("TARIFF", PenaltyCode, "Section 301", Txt25, RateInfo(<<"2", "5">>),
           Iso(1), Iso(MaxDay), <<"CN">>, <<>>, <<ExclusionCode>>, Priority(1))

\* A second penalty, with a compound rate and no exclusion.
CompoundPenaltyRecord ==
    Tariff("TARIFF", "9903.01.24", "IEEPA", TxtCompound, RateInfo(<<"1", "0">>),
           Iso(1), Iso(MaxDay), <<>>, <<>>, <<>>, Priority(2))

\* An exclusion in force on day 1 only, with no penaltyRate.
ExclusionRecord ==
    Tariff("TARIFF", ExclusionCode, "Section 301 exclusion", Txt10, RateInfo(<<>>),
           Iso(1), Iso(1), <<>>, <<>>, <<>>, MissingPriority)

\* Records with one anomaly each.
NoRateInfoRecord ==
    Tariff("TARIFF", "9903.90.01", "no rateInfo", Txt25, MissingRateInfo,
           Iso(1), Iso(MaxDay), <<>>, <<>>, <<>>, MissingPriority)

BadPenaltyRateRecord ==
    Tariff("TARIFF", "9903.90.02", "penaltyRate abc", Txt25, RateInfo(<<"a", "b", "c">>),
           Iso(1), Iso(MaxDay), <<>>, <<>>, <<>>, MissingPriority)

NullPriorityRecord ==
    Tariff("TARIFF", "9903.90.03", "priority null", Txt25, RateInfo(<<"2", "5">>),
           Iso(1), Iso(MaxDay), <<>>, <<>>, <<>>, NullPriority)

NullDateRecord ==
    Tariff("TARIFF", "9903.90.04", "effectiveFrom null", Txt25, RateInfo(<<"2", "5">>),
           NullDate, Iso(MaxDay), <<>>, <<>>, <<>>, MissingPriority)

BadConditionRecord ==
    Tariff("TARIFF", "9903.90.05", "threshold null", Txt25, RateInfo(<<"2", "5">>),
           Iso(1), Iso(MaxDay), <<>>, <<LessCond(NullDate)>>, <<>>, MissingPriority)

AnomalousRecords ==
    {NoRateInfoRecord, BadPenaltyRateRecord, NullPriorityRecord, NullDateRecord,
     BadConditionRecord}

OtherRecords ==
    {PenaltyRecord, CompoundPenaltyRecord, ExclusionRecord} \cup AnomalousRecords

PrimaryRecord(rate, special_rates) ==
    [Tariff("COMMODITY_CODE", "8708.94.50", "Steering wheels", rate, RateInfo(<<>>),
            MissingDate, MissingDate, <<>>, <<>>, <<>>, MissingPriority)
       EXCEPT !.specialRates = special_rates]

PrimaryRecords ==
    {PrimaryRecord(rate, <<>>) : rate \in {Txt5, Txt0, TxtFree, TxtCompound}}
    \cup {PrimaryRecord(Txt5, <<SpecialRate("USMCA", "S", Txt1, <<"MX", "CA">>),
                                SpecialRate("Trade deal", "T", Txt2p5, <<"KR", "CN">>),
                                SpecialRate("GSP", "A", TxtFREE, <<"CN">>)>>),
          PrimaryRecord(AbsentText, <<SpecialRate("GSP", "A", TxtFREE, <<"CN">>)>>)}

\* The snapshots a fetch may return: the primary record first, if any, then
\* up to MaxRecords other records.
Snapshots ==
    {others : others \in SeqsUpTo(OtherRecords, MaxRecords)}
    \cup {<<p>> \o others : p \in PrimaryRecords, others \in SeqsUpTo(OtherRecords, MaxRecords)}

FetchResults == {NotFound} \cup {Found(records) : records \in Snapshots}

Requests ==
    [hts_code : {"8708945000"},
     country : {<<"CN">>, <<"cn">>},
     entry_date : Days,
     loading_date : {None, Some(1)},
     mode_of_transport : {<<"any">>, <<"boat">>},
     base_cost : {100, 1000}]

Init ==
    /\ pc = "start"
    /\ request \in Requests
    /\ raw_data = <<>>
    /\ analysis = Pending
    /\ report_results = <<>>
    /\ total_tariff = <<>>
    /\ total_rate = <<>>
    /\ response = 0
    /\ EvalIdle
    /\ ResolveIdle

\* Lines 65-67: an invalid mode_of_transport ends the request with 400.
ValidateMode ==
    /\ pc = "start"
    /\ IF str_upper(request.mode_of_transport[1]) \notin valid_modes
       THEN response' = 400 /\ pc' = "done"
       ELSE response' = response /\ pc' = "fetch"
    /\ UNCHANGED <<request, raw_data, analysis, report_results, total_tariff, total_rate>>
    /\ UNCHANGED <<evalVars, resolveVars>>

\* Lines 69-71, fetching again after a fetch that returned None.
Fetch_mut ==
    /\ pc = "fetch"
    /\ \E data \in FetchResults :
         /\ raw_data' = data
         /\ IF ~data.found THEN response' = response /\ pc' = "fetch"
            ELSE IF data.records = <<>> THEN response' = 404 /\ pc' = "done"
            ELSE response' = response /\ pc' = "analyze"
    /\ UNCHANGED <<request, analysis, report_results, total_tariff, total_rate>>
    /\ UNCHANGED <<evalVars, resolveVars>>

\* Lines 69-71: the fetch, and 404 when it returned None or an empty list.
Fetch ==
    /\ pc = "fetch"
    /\ \E data \in FetchResults :
         /\ raw_data' = data
         /\ IF ~data.found \/ data.records = <<>>
            THEN response' = 404 /\ pc' = "done"
            ELSE response' = response /\ pc' = "analyze"
    /\ UNCHANGED <<request, analysis, report_results, total_tariff, total_rate>>
    /\ UNCHANGED <<evalVars, resolveVars>>

\* Lines 73-83 and 233-236, going on to the report with an error result.
AnalyzeTariffs_mut ==
    /\ pc = "analyze"
    /\ analysis' = analyze_tariffs(raw_data.records, request.country[1],
                                   str_upper(request.mode_of_transport[1]),
                                   request.entry_date, request.loading_date)
    /\ IF analysis'.exc # "none" THEN response' = 500 /\ pc' = "done"
       ELSE response' = response /\ pc' = "report"
    /\ UNCHANGED <<request, raw_data, report_results, total_tariff, total_rate>>
    /\ UNCHANGED <<evalVars, resolveVars>>

\* Lines 73-83 and 233-236: the analysis; an exception becomes 500 and an
\* error result 400.
AnalyzeTariffs ==
    /\ pc = "analyze"
    /\ analysis' = analyze_tariffs(raw_data.records, request.country[1],
                                   str_upper(request.mode_of_transport[1]),
                                   request.entry_date, request.loading_date)
    /\ IF analysis'.exc # "none" THEN response' = 500 /\ pc' = "done"
       ELSE IF "error" \in DOMAIN analysis'.val THEN response' = 400 /\ pc' = "done"
       ELSE response' = response /\ pc' = "report"
    /\ UNCHANGED <<request, raw_data, report_results, total_tariff, total_rate>>
    /\ UNCHANGED <<evalVars, resolveVars>>

\* Line 85.
GenerateReportData ==
    /\ pc = "report"
    /\ report_results' = generate_report_data(analysis.val, request.country[1])
    /\ pc' = "get_data"
    /\ UNCHANGED <<request, raw_data, analysis, total_tariff, total_rate, response>>
    /\ UNCHANGED <<evalVars, resolveVars>>

\* Line 175.
GetData ==
    /\ pc = "get_data"
    /\ total_tariff' = get_data(report_results)
    /\ pc' = "calculate"
    /\ UNCHANGED <<request, raw_data, analysis, report_results, total_rate, response>>
    /\ UNCHANGED <<evalVars, resolveVars>>

\* Lines 228-231.
CalculateTotalTariff ==
    /\ pc = "calculate"
    /\ total_rate' = calculate_total_tariff(total_tariff, request.base_cost)
    /\ response' = 200
    /\ pc' = "done"
    /\ UNCHANGED <<request, raw_data, analysis, report_results, total_tariff>>
    /\ UNCHANGED <<evalVars, resolveVars>>

Next ==
    \/ ValidateMode
    \/ Fetch
    \/ AnalyzeTariffs
    \/ GenerateReportData
    \/ GetData
    \/ CalculateTotalTariff

Spec == Init /\ [][Next]_vars

---------------------------------------------------------------------------
(* Claims about a request *)

\* analyze_tariffs has returned an analysis (not raised, not the error).
Returned == analysis.exc = "none" /\ "error" \notin DOMAIN analysis.val

Succeeded == pc = "done" /\ response = 200

\* The evaluator's verdict on a record for the request at hand.
InForce(c) ==
    is_code_applicable(c, request.country[1], str_upper(request.mode_of_transport[1]),
                       request.entry_date, request.loading_date) = Ret(TRUE)

IsPenaltyRecord(c) ==
    c.type # "COMMODITY_CODE" /\ penalty_rate(c).exc = "none" /\ is_penalty(c)

IsExclusionRecord(c) ==
    c.type # "COMMODITY_CODE" /\ penalty_rate(c).exc = "none" /\ is_exclusion(c)

ExcludedBy(p, e) == e.codeVariant.code \in Range(p.excludedByCodes)

\* C2 as stated: a penalty record of the snapshot whose excludedByCodes
\* holds the code of an exclusion record present in the snapshot is never
\* among the applicable (active) penalties of the analysis.
C2_Original_ExcludedByPresentExclusion ==
    Returned =>
        \A p \in Range(raw_data.records) : \A e \in Range(raw_data.records) :
            (IsPenaltyRecord(p) /\ IsExclusionRecord(e) /\ ExcludedBy(p, e))
                => p \notin Range(analysis.val.applicable_penalties)

\* C2, amended: a penalty record in force whose excludedByCodes holds the
\* code of an exclusion record that is itself in force for the shipment is
\* never among the applicable (active) penalties, and its code is a key of
\* excluded_penalties.
C2_ExcludedByApplicableExclusion ==
    Returned =>
        \A p \in Range(raw_data.records) : \A e \in Range(raw_data.records) :
            (IsPenaltyRecord(p) /\ IsExclusionRecord(e) /\ ExcludedBy(p, e)
             /\ InForce(p) /\ InForce(e))
                => /\ p \notin Range(analysis.val.applicable_penalties)
                   /\ \E k \in 1..Len(analysis.val.excluded_penalties) :
                        analysis.val.excluded_penalties[k].penalty_code = p.codeVariant.code

\* C2 witness: the penalty and its exclusion both in force, the penalty
\* under excluded_penalties with that exclusion and not among the active.
C2_Witness ==
    /\ Returned
    /\ InForce(PenaltyRecord) /\ InForce(ExclusionRecord)
    /\ {PenaltyRecord, ExclusionRecord} \subseteq Range(raw_data.records)
    /\ analysis.val.applicable_penalties = <<>>
    /\ analysis.val.excluded_penalties
         = <<[penalty_code |-> PenaltyCode, penalty |-> PenaltyRecord,
              exclusions |-> <<ExclusionRecord>>]>>

\* The sum of every numeric token of every text of a list.
RECURSIVE RatesTotal(_)
RatesTotal(rates) ==
    IF rates = <<>> THEN DecInt(0)
    ELSE DecAdd(sum_values(extract_values(Head(rates))), RatesTotal(Tail(rates)))

ActiveRates == 
    [i \in 1..Len(report_results.other_tariffs.active_penalties) |->
        report_results.other_tariffs.active_penalties[i].rate]

ExcludedRates ==
    [i \in 1..Len(report_results.other_tariffs.excluded_penalties) |->
        report_results.other_tariffs.excluded_penalties[i].penalty_rate]

NeutralRates ==
    [i \in 1..Len(report_results.other_tariffs.neutral_exclusions) |->
        report_results.other_tariffs.neutral_exclusions[i].rate]

\* C3: the reported duty_rate holds the sum of the numeric tokens of the
\* rates of the report's neutral exclusions, added to the basic rate value
\* besides the active and excluded totals.
C3_NeutralExclusionsAdded ==
    Succeeded =>
        total_rate.duty_rate =
            format_2f(DecAdd(DecAdd(basic_rate_value(total_tariff.basic_rate),
                                    RatesTotal(NeutralRates)),
                             DecAdd(RatesTotal(ActiveRates), RatesTotal(ExcludedRates))))

HasPrimary == \E c \in Range(raw_data.records) : c.type = "COMMODITY_CODE"

\* C4: with a COMMODITY_CODE record in the snapshot and at most one
\* anomalous non-primary record, analyze_tariffs returns an analysis.
C4_AnomalousRecordNotFatal ==
    (analysis.exc # "pending" /\ HasPrimary
     /\ Cardinality({i \in 1..Len(raw_data.records) :
                        raw_data.records[i] \in AnomalousRecords}) <= 1)
        => Returned

\* The structured error of analyze_tariffs: an error reason and no other
\* field.
IsErrorValue(result) == result.exc = "none" /\ DOMAIN result.val = {"error"}

\* C13: analyze_tariffs returns the structured error exactly when the
\* snapshot holds no COMMODITY_CODE record, and then without raising
\* whatever the other records hold; the request is then rejected (400) and
\* no report is built and nothing aggregated.
C13_MissingPrimaryIsStructuredError ==
    analysis.exc # "pending" =>
        /\ ~HasPrimary => analysis = Ret([error |-> "No primary COMMODITY_CODE found."])
        /\ HasPrimary => ~(analysis.exc = "none" /\ "error" \in DOMAIN analysis.val)
        /\ IsErrorValue(analysis) =>
             /\ pc = "done" /\ response = 400
             /\ report_results = <<>> /\ total_tariff = <<>> /\ total_rate = <<>>

\* C13 witness: a snapshot without a COMMODITY_CODE record, holding a
\* record without rateInfo and a record with a null date: the structured
\* error, the request rejected and no report.
C13_Witness ==
    /\ pc = "done"
    /\ IsErrorValue(analysis)
    /\ raw_data.records = <<NoRateInfoRecord, NullDateRecord>>
    /\ response = 400
    /\ report_results = <<>>

\* The fetch has returned; it returned None or an empty list.
Fetched == DOMAIN raw_data # {}

FetchedNothing == Fetched /\ (~raw_data.found \/ raw_data.records = <<>>)

\* C14: the fetch is invoked at most once in the handling of a request
\* (the fetch is reached from the start of the request only, a step taken
\* at the fetch is the fetch returning and leaves it, and the start is never
\* come back to); when it has returned None or an empty list the request
\* has ended with 404, nothing happens afterwards, and neither the
\* analysis, the report nor the aggregation has run.
C14_FetchOnceAndNotFoundTerminal ==
    /\ [][ /\ pc' = "fetch" => pc = "start"
           /\ pc = "fetch" => (pc' # "fetch" /\ DOMAIN raw_data = {} /\ DOMAIN raw_data' # {})
           /\ pc # "fetch" => raw_data' = raw_data
           /\ pc' # "start"
           /\ pc # "done" ]_vars
    /\ [](FetchedNothing =>
             /\ pc = "done" /\ response = 404
             /\ analysis = Pending
             /\ report_results = <<>> /\ total_tariff = <<>> /\ total_rate = <<>>)

\* C14 witness: the fetch returned None and the request ended with 404,
\* with no analysis.
C14_Witness ==
    /\ Fetched
    /\ ~raw_data.found
    /\ pc = "done" /\ response = 404
    /\ analysis = Pending

\* C6: the request with its country code in upper case gives the same
\* outcome: the same special programs, the same buckets, the same duty
\* rate.
C6_CountryCaseInsensitive ==
    (pc = "done" /\ analysis.exc # "pending") =>
        LET country == str_upper(request.country[1])
            other == analyze_tariffs(raw_data.records, country,
                                     str_upper(request.mode_of_transport[1]),
                                     request.entry_date, request.loading_date)
        IN  /\ other.exc = analysis.exc
            /\ Returned =>
                 /\ other.val.special_programs = analysis.val.special_programs
                 /\ other.val.applicable_penalties = analysis.val.applicable_penalties
                 /\ other.val.excluded_penalties = analysis.val.excluded_penalties
                 /\ other.val.neutral_exclusions = analysis.val.neutral_exclusions
                 /\ calculate_total_tariff(get_data(generate_report_data(other.val, country)),
                                           request.base_cost).duty_rate
                      = total_rate.duty_rate

\* C7: dutyRate = basicRateAccumulator + activeTotal + excludedTotal, where
\* the accumulator is total_rate, activeTotal sums every numeric token of
\* every active penalty's rate of the report and excludedTotal every
\* numeric token of every excluded penalty's own rate; the duty amount is
\* baseCost * dutyRate / 100 and the total cost is the duty amount plus
\* baseCost.  The reported duty_rate is dutyRate with two decimals.
C7_DutyRateFormula ==
    Succeeded =>
        LET duty == DecAdd(DecAdd(total_rate_of(total_tariff), RatesTotal(ActiveRates)),
                           RatesTotal(ExcludedRates))
            amount == DecDiv100(DecScale(request.base_cost, duty))
        IN  /\ total_rate.duty_rate = format_2f(duty)
            /\ total_rate.total_duties = amount
            /\ total_rate.total_cost = DecAdd(amount, DecInt(request.base_cost))

\* C7 witness (scenario B): one active penalty of 25%, no exclusion, a
\* primary rate of 0% and a base cost of 100 give a duty rate of 25 and a
\* total cost of 125.
C7_Witness ==
    /\ Succeeded
    /\ report_results.primary_info.column_1_rate = Txt0
    /\ report_results.special_programs.applicable_programs = <<>>
    /\ ActiveRates = <<Txt25>>
    /\ ExcludedRates = <<>>
    /\ NeutralRates = <<>>
    /\ request.base_cost = 100
    /\ total_rate.duty_rate = DecInt(25)
    /\ total_rate.total_cost = DecInt(125)

\* The snapshot's primary record and its special rates open to the
\* request's country, in their order.
Primary ==
    raw_data.records[CHOOSE i \in 1..Len(raw_data.records) :
        /\ raw_data.records[i].type = "COMMODITY_CODE"
        /\ \A j \in 1..(i - 1) : raw_data.records[j].type # "COMMODITY_CODE"]

EligiblePrograms ==
    LET eligible(rate) == request.country[1] \in Range(rate.importProgram.countriesOfOrigin)
    IN  SelectSeq(Primary.specialRates, eligible)

BasicRateDescription ==
    IF EligiblePrograms # <<>> THEN text_get(EligiblePrograms[1].rateDescription, TxtNA)
    ELSE text_get(Primary.rateDescription, TxtNA)

\* 0 for "free" in any letter case, else the first numeric token, else 0.
FirstTokenValue(description) ==
    IF text_lower(description) = <<"f", "r", "e", "e">> THEN DecInt(0)
    ELSE IF extract_values(description) = <<>> THEN DecInt(0)
    ELSE rate_value(Head(extract_values(description)))

\* C8: the basic rate is the rate description of the first special program
\* open to the country, in the primary record's order, when there is one,
\* and the primary record's own rate description otherwise; its value in
\* the duty rate is that of its first numeric token, 0 for "free" in any
\* letter case.
C8_BasicRateSelection ==
    Succeeded =>
        /\ total_tariff.basic_rate = BasicRateDescription
        /\ total_rate.duty_rate =
             format_2f(DecAdd(DecAdd(FirstTokenValue(BasicRateDescription),
                                     sum_values(total_tariff.neutral_exclusions)),
                              DecAdd(RatesTotal(ActiveRates), RatesTotal(ExcludedRates))))

\* C8 witness (scenario A): a primary rate of 5%, no special program, no
\* other record in force and a base cost of 1000 give a duty rate of 5 and
\* a total cost of 1050.
C8_Witness ==
    /\ Succeeded
    /\ Primary.rateDescription = Txt5
    /\ Primary.specialRates = <<>>
    /\ report_results.other_tariffs.has_message
    /\ request.base_cost = 1000
    /\ total_rate.duty_rate = DecInt(5)
    /\ total_rate.total_cost = DecInt(1050)

\* C15: the special programs of the analysis are the primary record's
\* special rates whose countriesOfOrigin holds the shipment country, in
\* their order and unmodified; the analysis of the primary record alone,
\* for any entry date, loading date and transport, has the same ones.
C15_SpecialProgramsByCountryOnly ==
    Returned =>
        /\ analysis.val.special_programs = EligiblePrograms
        /\ \A e \in Days : \A l \in {None} \cup {Some(d) : d \in Days} :
             \A t \in valid_modes :
                LET alone == analyze_tariffs(<<Primary>>, request.country[1], t, e, l)
                IN  /\ alone.exc = "none"
                    /\ alone.val.special_programs = analysis.val.special_programs

\* C15 witness: a primary record with programs for MX/CA, KR/CN and CN, the
\* country CN and a penalty in the snapshot: the second and third programs
\* are returned, in that order.
C15_Witness ==
    /\ Returned
    /\ request.country = <<"CN">>
    /\ Len(Primary.specialRates) = 3
    /\ PenaltyRecord \in Range(raw_data.records)
    /\ analysis.val.applicable_penalties # <<>>
    /\ analysis.val.special_programs = <<Primary.specialRates[2], Primary.specialRates[3]>>

=============================================================================
